---- MODULE Spec2Model ----
(***************************************************************************)
(* Model of emacs_package_dependency.py: the dependency scanner            *)
(* (find_emacs_package_dependencies) and the graph builder                 *)
(* (generate_dependency_graph).                                            *)
(*                                                                         *)
(* Text (directory names, file names, lines, dependency names) is modelled *)
(* in the scanner as sequences of one-character strings, so that the two   *)
(* regular expressions and the suffix/prefix tests are computed character  *)
(* by character as the code computes them.                                 *)
(***************************************************************************)
EXTENDS Integers, Sequences, FiniteSets, TLC

VARIABLES
    \* ---- scanner: the inputs (fixed during a behaviour)
    repo_is_dir,          \* os.path.isdir(repo_path)
    repo,                 \* the directory tree: entry name -> entry
    only_main_file,       \* the only_main_file argument
    \* ---- scanner: the locals of find_emacs_package_dependencies
    pc,                   \* position in the function
    listing,              \* os.listdir(repo_path), in the order it returned
    idx,                  \* index of the current entry_name in listing
    all_dependencies,     \* the result mapping
    entry_name,
    package_name_key,
    current_package_deps,
    el_files,             \* the list comprehension of line 59
    fidx,                 \* index of item_in_package_dir in el_files
    main_file,
    warnings,             \* the files a "Warning:" line was printed for
    \* ---- scanner: observation (history) variables
    run,                  \* 1 or 2: the scan is run twice over the same tree
    first_result,         \* what the first run returned
    reordered,            \* the second run listed the repository in another order
    opened,               \* the (entry name, file name) pairs open() was called on
    found,                \* (entry name, file name) -> the names added from it
    \* ---- graph builder
    gpc,                  \* position in generate_dependency_graph
    dependencies,         \* the dependencies argument
    key_order,            \* the order the dependencies dict iterates in
    show_descriptions,    \* the show_descriptions argument
    todo,                 \* what the running loop has still to visit
    nodes,                \* the node statements emitted, in order
    edges                 \* the edge statements emitted, in order

scan_vars == <<repo_is_dir, repo, only_main_file, pc, listing, idx,
               all_dependencies, entry_name, package_name_key,
               current_package_deps, el_files, fidx, main_file, warnings,
               run, first_result, reordered, opened, found>>
graph_vars == <<gpc, dependencies, key_order, show_descriptions, todo, nodes,
                edges>>
vars == <<scan_vars, graph_vars>>

-----------------------------------------------------------------------------
(* Characters *)

UpperCase == <<"A", "B", "C", "D", "E", "F", "G", "H", "I", "J", "K", "L", "M",
               "N", "O", "P", "Q", "R", "S", "T", "U", "V", "W", "X", "Y", "Z">>
LowerCase == <<"a", "b", "c", "d", "e", "f", "g", "h", "i", "j", "k", "l", "m",
               "n", "o", "p", "q", "r", "s", "t", "u", "v", "w", "x", "y", "z">>
Digits == {"0", "1", "2", "3", "4", "5", "6", "7", "8", "9"}

Range(s) == {s[i] : i \in DOMAIN s}

\* \s of the re module, restricted to the characters the model uses
IsSpace(c) == c \in {" ", "\t", "\n"}

\* [\w-] of dependency_item_regex
IsWordOrHyphen(c) ==
    c \in Range(UpperCase) \cup Range(LowerCase) \cup Digits \cup {"_", "-"}

\* re.IGNORECASE: letters compare by their lower-case form
Lower(c) ==
    IF c \in Range(UpperCase)
    THEN LowerCase[CHOOSE i \in DOMAIN UpperCase : UpperCase[i] = c]
    ELSE c

\* the literal "Package-Requires:" of package_requires_regex, lower-cased
HeaderKeyword == <<"p", "a", "c", "k", "a", "g", "e", "-", "r", "e", "q", "u",
                   "i", "r", "e", "s", ":">>

\* str.endswith / str.startswith
EndsWith(s, suffix) ==
    /\ Len(s) >= Len(suffix)
    /\ SubSeq(s, Len(s) - Len(suffix) + 1, Len(s)) = suffix
StartsWith(s, prefix) ==
    /\ Len(s) >= Len(prefix)
    /\ SubSeq(s, 1, Len(prefix)) = prefix

DotEl == <<".", "e", "l">>

\* the first position >= i of s that holds no white space (Len(s)+1 if none)
RECURSIVE SkipSpace(_, _)
SkipSpace(s, i) ==
    IF i <= Len(s) /\ IsSpace(s[i]) THEN SkipSpace(s, i + 1) ELSE i

\* the last position <= i of s that holds no white space (0 if none)
RECURSIVE SkipSpaceBack(_, _)
SkipSpaceBack(s, i) ==
    IF i >= 1 /\ IsSpace(s[i]) THEN SkipSpaceBack(s, i - 1) ELSE i

\* str.strip()
Strip(s) == SubSeq(s, SkipSpace(s, 1), SkipSpaceBack(s, Len(s)))

\* the end of the run of [\w-] characters that starts at position i
RECURSIVE WordEnd(_, _)
WordEnd(s, i) ==
    IF i + 1 <= Len(s) /\ IsWordOrHyphen(s[i + 1]) THEN WordEnd(s, i + 1) ELSE i

-----------------------------------------------------------------------------
(* The two regular expressions *)

NoMatch == [matched |-> FALSE, group1 |-> <<>>]

\* package_requires_regex.search(line):
\*   ^\s*;;;?\s*Package-Requires:\s*\((.*)\)\s*$    with re.IGNORECASE
\* The result is the match's group(1). The greedy (.*) followed by \)\s*$
\* ends at the last ")" of the line, which only white space may follow, and
\* "." matches no newline.
package_requires_regex(line) ==
    LET semi   == SkipSpace(line, 1)
        after2 == semi + 2
        after3 == IF after2 <= Len(line) /\ line[after2] = ";"
                  THEN after2 + 1 ELSE after2
        kw     == SkipSpace(line, after3)
        kwEnd  == kw + Len(HeaderKeyword) - 1
        open   == SkipSpace(line, kwEnd + 1)
        close  == SkipSpaceBack(line, Len(line))
    IN  IF /\ semi + 1 <= Len(line)
           /\ line[semi] = ";"
           /\ line[semi + 1] = ";"
           /\ kwEnd <= Len(line)
           /\ \A k \in 1..Len(HeaderKeyword) :
                  Lower(line[kw + k - 1]) = HeaderKeyword[k]
           /\ open <= Len(line)
           /\ line[open] = "("
           /\ close > open
           /\ line[close] = ")"
           /\ \A k \in (open + 1)..(close - 1) : line[k] # "\n"
        THEN [matched |-> TRUE, group1 |-> SubSeq(line, open + 1, close - 1)]
        ELSE NoMatch

\* dependency_item_regex.findall(s):   \(([\w-]+)[^)]*\)|([\w-]+)
\* The result is the sequence of (group1, group2) pairs, scanning s from
\* position i. The first alternative needs "(" directly followed by a name
\* and a ")" somewhere after it; otherwise a run of [\w-] matches alone.
RECURSIVE FindAllFrom(_, _)
FindAllFrom(s, i) ==
    IF i > Len(s) THEN <<>>
    ELSE IF /\ s[i] = "("
            /\ i + 1 <= Len(s)
            /\ IsWordOrHyphen(s[i + 1])
            /\ \E j \in (i + 2)..Len(s) : s[j] = ")"
    THEN LET e == WordEnd(s, i + 1)
             j == CHOOSE j \in (e + 1)..Len(s) :
                      /\ s[j] = ")"
                      /\ \A k \in (e + 1)..(j - 1) : s[k] # ")"
         IN  <<<<SubSeq(s, i + 1, e), <<>>>>>> \o FindAllFrom(s, j + 1)
    ELSE IF IsWordOrHyphen(s[i])
    THEN LET e == WordEnd(s, i)
         IN  <<<<<<>>, SubSeq(s, i, e)>>>> \o FindAllFrom(s, e + 1)
    ELSE FindAllFrom(s, i + 1)

dependency_item_regex(s) == FindAllFrom(s, 1)

\* lines 82-95: the names one line adds to current_package_deps
LineDeps(line) ==
    LET match == package_requires_regex(line)
        dependencies_str == Strip(match.group1)
        found_deps_on_line == dependency_item_regex(dependencies_str)
    IN  IF ~match.matched \/ dependencies_str = <<>>
        THEN {}
        ELSE {IF found_deps_on_line[k][1] # <<>>
              THEN found_deps_on_line[k][1]
              ELSE found_deps_on_line[k][2] : k \in DOMAIN found_deps_on_line}

-----------------------------------------------------------------------------
(* The repositories the scanner is run on *)

\* Lines of source files
HeaderSingle ==        \* ;; Package-Requires: ((emacs "27.1") (b "0.1"))
    <<";", ";", " ", "P", "a", "c", "k", "a", "g", "e", "-", "R", "e", "q", "u",
      "i", "r", "e", "s", ":", " ", "(", "(", "e", "m", "a", "c", "s", " ", "\"",
      "2", "7", ".", "1", "\"", ")", " ", "(", "b", " ", "\"", "0", ".", "1", "\"",
      ")", ")", "\n">>
HeaderBare ==          \* ;;; package-requires: (c d)
    <<";", ";", ";", " ", "p", "a", "c", "k", "a", "g", "e", "-", "r", "e", "q",
      "u", "i", "r", "e", "s", ":", " ", "(", "c", " ", "d", ")", "\n">>
HeaderEmpty ==         \* ;; Package-Requires: ()
    <<";", ";", " ", "P", "a", "c", "k", "a", "g", "e", "-", "R", "e", "q", "u",
      "i", "r", "e", "s", ":", " ", "(", ")", "\n">>
HeaderFirstOfTwo ==    \* ;; Package-Requires: ((emacs "27.1")
    <<";", ";", " ", "P", "a", "c", "k", "a", "g", "e", "-", "R", "e", "q", "u",
      "i", "r", "e", "s", ":", " ", "(", "(", "e", "m", "a", "c", "s", " ", "\"",
      "2", "7", ".", "1", "\"", ")", "\n">>
HeaderSecondOfTwo ==   \* ;;   (b "0.1"))
    <<";", ";", " ", " ", " ", "(", "b", " ", "\"", "0", ".", "1", "\"", ")",
      ")", "\n">>
CodeLine ==            \* (provide (quote a))
    <<"(", "p", "r", "o", "v", "i", "d", "e", " ", "(", "q", "u", "o", "t", "e",
      " ", "a", ")", ")", "\n">>

\* File contents
SingleLineHeader == <<HeaderSingle, CodeLine>>
BareHeader == <<HeaderBare, CodeLine>>
EmptyHeader == <<HeaderEmpty>>
\* a header whose dependency list spans two physical lines
MultiLineHeader == <<HeaderFirstOfTwo, HeaderSecondOfTwo, CodeLine>>

\* A file: its lines, what open()/iteration does ("ok", "notfound": open raises
\* FileNotFoundError, "error": another exception is raised), and for "error"
\* how many lines the iteration delivered before the exception (0: at open).
Readable(lines) == [lines |-> lines, status |-> "ok", delivered |-> Len(lines)]
Vanished(lines) == [lines |-> lines, status |-> "notfound", delivered |-> 0]
Failing(lines, n) == [lines |-> lines, status |-> "error", delivered |-> n]

\* Names
NameA == <<"a">>
NameADotEl == <<"a", ".", "e", "l">>
NameHidden == <<".", "a", ".", "e", "l">>
FileA == <<"a", ".", "e", "l">>
FileB == <<"b", ".", "e", "l">>
FileC == <<"c", ".", "e", "l">>
FileTxt == <<"a", ".", "t", "x", "t">>

\* Directory entries of the repository: a plain file, or a package directory
\* with its files.
PlainFile == [isdir |-> FALSE, files |-> <<>>]
PackageDir(files) == [isdir |-> TRUE, files |-> files]

DirCatalog ==
    { PackageDir(<<>>),
      PackageDir(FileA :> Readable(SingleLineHeader)),
      PackageDir(FileB :> Readable(BareHeader)
                 @@ FileTxt :> Readable(SingleLineHeader)),
      PackageDir(FileA :> Readable(MultiLineHeader)
                 @@ FileB :> Failing(BareHeader, 1)),
      PackageDir(FileB :> Readable(EmptyHeader)
                 @@ FileC :> Readable(BareHeader)
                 @@ FileTxt :> Readable(BareHeader)),
      PackageDir(FileA :> Vanished(SingleLineHeader)
                 @@ FileB :> Failing(SingleLineHeader, 0)) }

EntryNames == {NameA, NameADotEl, NameHidden}

\* directory names that probe the suffix and prefix tests of lines 51-52
OddNames == { <<".", "e", "l">>, <<"e", "l">>, <<"a", "e", "l">>,
              <<"a", ".", "e", "l", "c">>, <<"a", ".", "e", "l", ".", "e", "l">>,
              <<"a", ".", "E", "L">>, <<"b">> }

\* the largest number of entries of a repository
MaxEntries == 2

\* every assignment of catalog entries to at most MaxEntries of the entry
\* names, and every oddly named directory beside at most one of them
Repos ==
    LET base == UNION { [names -> DirCatalog \cup {PlainFile}] :
                   names \in {s \in SUBSET EntryNames :
                                 Cardinality(s) <= MaxEntries} }
        odd  == { r @@ (n :> PackageDir(FileA :> Readable(SingleLineHeader))) :
                   r \in {b \in base : Cardinality(DOMAIN b) <= 1},
                   n \in OddNames }
    IN  base \cup odd

\* the orders os.listdir may return the names of S in
Orders(S) ==
    {s \in [1..Cardinality(S) -> S] : \A i, j \in DOMAIN s : s[i] = s[j] => i = j}

EmptyMap == <<>>
NoFile == <<>>      \* None

-----------------------------------------------------------------------------
(* find_emacs_package_dependencies *)

\* faulty variant: the hidden-name test of line 51 is left out
PackageNameKey_NoHiddenTest(name) ==
    IF EndsWith(name, DotEl)
    THEN SubSeq(name, 1, Len(name) - 3)
    ELSE name

\* lines 50-52
PackageNameKey(name) ==
    IF EndsWith(name, DotEl) /\ ~StartsWith(name, <<".">>)
    THEN SubSeq(name, 1, Len(name) - 3)
    ELSE name

\* faulty variant: every directory starts from a fresh set
GetDeps_Fresh(all, key) == {}

\* line 57: all_dependencies.get(package_name_key, set())
GetDeps(all, key) == IF key \in DOMAIN all THEN all[key] ELSE {}

\* line 59: the names of the directory that end in ".el"
ElNames(dir) == {f \in DOMAIN dir.files : EndsWith(f, DotEl)}

\* faulty variant: the only-one-file rule of lines 65-66 is left out
MainFile_NameOnly(only_main, files, key) ==
    IF ~only_main THEN NoFile
    ELSE IF \E i \in DOMAIN files : files[i] = key \o DotEl
         THEN key \o DotEl
         ELSE NoFile

\* faulty variant: the first file listed is taken when no file has the package's name
MainFile_FirstListed(only_main, files, key) ==
    IF ~only_main THEN NoFile
    ELSE IF \E i \in DOMAIN files : files[i] = key \o DotEl
         THEN key \o DotEl
         ELSE IF Len(files) >= 1 THEN files[1] ELSE NoFile

\* lines 62-71
MainFile(only_main, files, key) ==
    IF ~only_main THEN NoFile
    ELSE IF Len(files) = 1 THEN files[1]
    ELSE IF \E i \in DOMAIN files : files[i] = key \o DotEl
         THEN key \o DotEl
         ELSE NoFile

\* line 75
SkipsFile(only_main, item, main) == only_main /\ item # main

\* lines 80-95: the names the lines delivered by the file add
FileDeps(file) == UNION {LineDeps(file.lines[i]) : i \in 1..file.delivered}

\* faulty variant: a package without dependencies is not stored
StoreDeps_NonEmptyOnly(all, key, deps) ==
    IF deps = {} THEN all
    ELSE [k \in DOMAIN all \cup {key} |-> IF k = key THEN deps ELSE all[k]]

\* lines 101-103
StoreDeps(all, key, deps) ==
    LET stored == [k \in DOMAIN all \cup {key} |->
                      IF k = key THEN deps ELSE all[k]]
    IN  IF deps = {} /\ key \notin DOMAIN stored
        THEN [k \in DOMAIN stored \cup {key} |->
                 IF k = key THEN {} ELSE stored[k]]
        ELSE stored

\* lines 40-42: the path is no directory
InvalidPath ==
    /\ pc = "start"
    /\ ~repo_is_dir
    /\ pc' = "done"
    /\ UNCHANGED <<repo_is_dir, repo, only_main_file, listing, idx,
                   all_dependencies, entry_name, package_name_key,
                   current_package_deps, el_files, fidx, main_file, warnings,
                   run, first_result, reordered, opened, found>>

\* line 44: os.listdir(repo_path)
ListRepo ==
    /\ pc = "start"
    /\ repo_is_dir
    /\ \E order \in Orders(DOMAIN repo) : listing' = order
    /\ reordered' = (run = 2 /\ listing' # listing)
    /\ idx' = 1
    /\ pc' = "entries"
    /\ UNCHANGED <<repo_is_dir, repo, only_main_file, all_dependencies,
                   entry_name, package_name_key, current_package_deps,
                   el_files, fidx, main_file, warnings, run, first_result,
                   opened, found>>

\* lines 44-46: an entry that is no directory
SkipEntry ==
    /\ pc = "entries"
    /\ idx <= Len(listing)
    /\ ~repo[listing[idx]].isdir
    /\ idx' = idx + 1
    /\ UNCHANGED <<repo_is_dir, repo, only_main_file, pc, listing,
                   all_dependencies, entry_name, package_name_key,
                   current_package_deps, el_files, fidx, main_file, warnings,
                   run, first_result, reordered, opened, found>>

\* lines 44-71: a package directory, up to the loop over its files
EnterPackage ==
    /\ pc = "entries"
    /\ idx <= Len(listing)
    /\ repo[listing[idx]].isdir
    /\ entry_name' = listing[idx]
    /\ package_name_key' = PackageNameKey(listing[idx])
    /\ current_package_deps' =
           GetDeps(all_dependencies, PackageNameKey(listing[idx]))
    /\ \E order \in Orders(ElNames(repo[listing[idx]])) : el_files' = order
    /\ main_file' = MainFile(only_main_file, el_files', package_name_key')
    /\ fidx' = 1
    /\ pc' = "files"
    /\ UNCHANGED <<repo_is_dir, repo, only_main_file, listing, idx,
                   all_dependencies, warnings, run, first_result,
                   reordered, opened, found>>

\* lines 73-76: a file that is not the main file
SkipFile ==
    /\ pc = "files"
    /\ fidx <= Len(el_files)
    /\ SkipsFile(only_main_file, el_files[fidx], main_file)
    /\ fidx' = fidx + 1
    /\ UNCHANGED <<repo_is_dir, repo, only_main_file, pc, listing, idx,
                   all_dependencies, entry_name, package_name_key,
                   current_package_deps, el_files, main_file, warnings, run,
                   first_result, reordered, opened, found>>

\* lines 78-99: open the file and read its lines
ReadFile ==
    /\ pc = "files"
    /\ fidx <= Len(el_files)
    /\ ~SkipsFile(only_main_file, el_files[fidx], main_file)
    /\ LET item == el_files[fidx]
           file == repo[entry_name].files[item]
       IN  /\ current_package_deps' = current_package_deps \cup FileDeps(file)
           /\ warnings' = IF file.status = "error"
                          THEN warnings \cup {<<entry_name, item>>}
                          ELSE warnings
           /\ opened' = opened \cup {<<entry_name, item>>}
           /\ found' = (<<entry_name, item>> :> FileDeps(file)) @@ found
    /\ fidx' = fidx + 1
    /\ UNCHANGED <<repo_is_dir, repo, only_main_file, pc, listing, idx,
                   all_dependencies, entry_name, package_name_key, el_files,
                   main_file, run, first_result, reordered>>

\* lines 101-103: the package's files are done
FinishPackage ==
    /\ pc = "files"
    /\ fidx > Len(el_files)
    /\ all_dependencies' =
           StoreDeps(all_dependencies, package_name_key, current_package_deps)
    /\ idx' = idx + 1
    /\ pc' = "entries"
    /\ UNCHANGED <<repo_is_dir, repo, only_main_file, listing, entry_name,
                   package_name_key, current_package_deps, el_files, fidx,
                   main_file, warnings, run, first_result, reordered,
                   opened, found>>

\* line 105
Return ==
    /\ pc = "entries"
    /\ idx > Len(listing)
    /\ pc' = "done"
    /\ UNCHANGED <<repo_is_dir, repo, only_main_file, listing, idx,
                   all_dependencies, entry_name, package_name_key,
                   current_package_deps, el_files, fidx, main_file, warnings,
                   run, first_result, reordered, opened, found>>

\* a second call with the same arguments over the unchanged tree (line 29:
\* the result starts empty again); listing keeps the first run's order until
\* line 44 lists the repository again
Rescan ==
    /\ pc = "done"
    /\ run = 1
    /\ run' = 2
    /\ first_result' = all_dependencies
    /\ all_dependencies' = EmptyMap
    /\ idx' = 1
    /\ entry_name' = <<>>
    /\ package_name_key' = <<>>
    /\ current_package_deps' = {}
    /\ el_files' = <<>>
    /\ fidx' = 1
    /\ main_file' = NoFile
    /\ warnings' = {}
    /\ opened' = {}
    /\ found' = EmptyMap
    /\ pc' = "start"
    /\ UNCHANGED <<repo_is_dir, repo, only_main_file, listing, reordered>>

Init ==
    /\ repo_is_dir \in BOOLEAN
    /\ repo \in IF repo_is_dir THEN Repos ELSE {EmptyMap}
    /\ only_main_file \in BOOLEAN
    /\ pc = "start"
    /\ listing = <<>>
    /\ idx = 1
    /\ all_dependencies = EmptyMap
    /\ entry_name = <<>>
    /\ package_name_key = <<>>
    /\ current_package_deps = {}
    /\ el_files = <<>>
    /\ fidx = 1
    /\ main_file = NoFile
    /\ warnings = {}
    /\ run = 1
    /\ first_result = EmptyMap
    /\ reordered = FALSE
    /\ opened = {}
    /\ found = EmptyMap
    /\ gpc = "idle"
    /\ dependencies = EmptyMap
    /\ key_order = <<>>
    /\ show_descriptions = FALSE
    /\ todo = <<>>
    /\ nodes = <<>>
    /\ edges = <<>>

Next ==
    \/ (InvalidPath /\ UNCHANGED graph_vars)
    \/ (ListRepo /\ UNCHANGED graph_vars)
    \/ (SkipEntry /\ UNCHANGED graph_vars)
    \/ (EnterPackage /\ UNCHANGED graph_vars)
    \/ (SkipFile /\ UNCHANGED graph_vars)
    \/ (ReadFile /\ UNCHANGED graph_vars)
    \/ (FinishPackage /\ UNCHANGED graph_vars)
    \/ (Return /\ UNCHANGED graph_vars)
    \/ (Rescan /\ UNCHANGED graph_vars)

Spec == Init /\ [][Next]_vars

-----------------------------------------------------------------------------
(* The tables of emacs_package_metadata.py and emacs_builtin_packages.py.  *)
(* The category names and the description are Chinese in the source and    *)
(* are written here in English.                                            *)

PACKAGE_DESCRIPTIONS == ("vundo" :> "visual undo")

\* a category's content: a list of packages, or a dict of (key, content)
\* items in the order the source writes them
PackageList(packages) == [kind |-> "list", packages |-> packages]
SubCategories(items) == [kind |-> "dict", items |-> items]

CATEGORY_HIERARCHY ==
    << <<"development environment",
         SubCategories(<< <<"packages", PackageList(<<"magit", "apheleia">>)>> >>)>>,
       <<"mini-buffer completion",
         SubCategories(<<
           <<"vertico suite",
             PackageList(<<"vertico", "orderless", "embark", "consult",
                           "marginalia">>)>>,
           <<"packages", PackageList(<<"helm">>)>> >>)>>,
       <<"knowledge management",
         SubCategories(<<
           <<"notes",
             PackageList(<<"org-media-note", "org-annot-bridge", "org",
                           "org-contrib", "org-cliplink">>)>>,
           <<"bibliography management",
             PackageList(<<"citar", "parsebib", "org-cite", "helm-bibtex">>)>>,
           <<"GTD",
             PackageList(<<"org-journal", "org-super-agenda", "cal-china-x">>)>>,
           <<"document viewing", PackageList(<<"nov", "pdf-tools">>)>>,
           <<"packages",
             PackageList(<<"org-sticky-header", "org-rifle", "helm-org",
                           "org-mru-clock", "doct", "rainbow-mode">>)>> >>)>>,
       <<"general editing",
         SubCategories(<<
           <<"snippet", PackageList(<<"yasnippet", "yankpad", "xah-math-input">>)>>,
           <<"packages", PackageList(<<"vundo", "expand-region">>)>> >>)>>,
       <<"straight package installer",
         PackageList(<<"emacsmirror-mirror", "gnu-elpa-mirror", "melpa",
                       "nongnu-elpa", "straight">>)>> >>

EMACS_BUILTIN_PACKAGES == ("30" :> {"emacs", "cl-lib", "org", "transient"})

\* the default of the emacs_version parameter, the only key of the table
emacs_version == "30"

\* line 128
builtin_packages ==
    IF emacs_version \in DOMAIN EMACS_BUILTIN_PACKAGES
    THEN EMACS_BUILTIN_PACKAGES[emacs_version] ELSE {}

-----------------------------------------------------------------------------
(* generate_dependency_graph *)

\* lines 130-143: the node statement; cluster is the path of cluster names
\* of the graph the node is created in (<<>>: the top-level graph)
create_node(show, package, cluster) ==
    [name      |-> package,
     cluster   |-> cluster,
     label     |-> IF show /\ package \in DOMAIN PACKAGE_DESCRIPTIONS
                   THEN <<package, PACKAGE_DESCRIPTIONS[package]>>
                   ELSE <<package>>,
     fillcolor |-> IF package \in builtin_packages
                   THEN "lightblue" ELSE "lightgrey"]

\* lines 159-161 and 170-172: the nodes of a package list
RECURSIVE ListNodes(_, _, _, _)
ListNodes(deps, show, cluster, packages) ==
    IF packages = <<>> THEN <<>>
    ELSE (IF Head(packages) \in DOMAIN deps
          THEN <<create_node(show, Head(packages), cluster)>>
          ELSE <<>>)
         \o ListNodes(deps, show, cluster, Tail(packages))

\* lines 145-173: the nodes created in the cluster of a category and in the
\* clusters nested in it
RECURSIVE create_category_subgraph(_, _, _, _, _)
RECURSIVE SubCategoryNodes(_, _, _, _)
RECURSIVE DirectPackageNodes(_, _, _, _)
create_category_subgraph(deps, show, parent, category_name, content) ==
    LET s == Append(parent, category_name)
    IN  IF content.kind = "list"
        THEN ListNodes(deps, show, s, content.packages)
        ELSE SubCategoryNodes(deps, show, s, content.items)
             \o DirectPackageNodes(deps, show, s, content.items)

\* lines 164-166
SubCategoryNodes(deps, show, s, items) ==
    IF items = <<>> THEN <<>>
    ELSE (IF Head(items)[1] # "packages"
          THEN create_category_subgraph(deps, show, s, Head(items)[1],
                                        Head(items)[2])
          ELSE <<>>)
         \o SubCategoryNodes(deps, show, s, Tail(items))

\* lines 169-172
DirectPackageNodes(deps, show, s, items) ==
    IF items = <<>> THEN <<>>
    ELSE IF Head(items)[1] = "packages"
    THEN ListNodes(deps, show, s, Head(items)[2].packages)
    ELSE DirectPackageNodes(deps, show, s, Tail(items))

\* faulty variant: the dicts nested in the hierarchy are not searched
RECURSIVE get_all_packages_TopLevelOnly(_)
get_all_packages_TopLevelOnly(items) ==
    IF items = <<>> THEN {}
    ELSE (IF Head(items)[2].kind = "list"
          THEN Range(Head(items)[2].packages)
          ELSE {})
         \cup get_all_packages_TopLevelOnly(Tail(items))

\* lines 180-188
RECURSIVE get_all_packages(_)
get_all_packages(items) ==
    IF items = <<>> THEN {}
    ELSE (IF Head(items)[2].kind = "list"
          THEN Range(Head(items)[2].packages)
          ELSE get_all_packages(Head(items)[2].items))
         \cup get_all_packages(Tail(items))

\* faulty variant: the test of line 198 is left out
EdgeTargets_Unfiltered(deps, package) == deps[package]

\* lines 197-198: the dependencies of a package that get an edge
EdgeTargets(deps, package) == {dep \in deps[package] : dep \in DOMAIN deps}

\* lines 176-177: one category of the hierarchy and all that is nested in it
CreateCategory ==
    /\ gpc = "categories"
    /\ todo # <<>>
    /\ nodes' = nodes \o create_category_subgraph(dependencies,
                             show_descriptions, <<>>, Head(todo)[1],
                             Head(todo)[2])
    /\ todo' = Tail(todo)
    /\ UNCHANGED <<gpc, dependencies, key_order, show_descriptions, edges>>

\* lines 190-191: the categories are done
CategoriesDone ==
    /\ gpc = "categories"
    /\ todo = <<>>
    /\ gpc' = "ungrouped"
    /\ todo' = key_order
    /\ UNCHANGED <<dependencies, key_order, show_descriptions, nodes, edges>>

\* lines 191-193: a key of the mapping
UngroupedNode ==
    /\ gpc = "ungrouped"
    /\ todo # <<>>
    /\ nodes' = IF Head(todo) \notin get_all_packages(CATEGORY_HIERARCHY)
                THEN Append(nodes,
                            create_node(show_descriptions, Head(todo), <<>>))
                ELSE nodes
    /\ todo' = Tail(todo)
    /\ UNCHANGED <<gpc, dependencies, key_order, show_descriptions, edges>>

\* line 196: the nodes are done
UngroupedDone ==
    /\ gpc = "ungrouped"
    /\ todo = <<>>
    /\ gpc' = "edges"
    /\ todo' = key_order
    /\ UNCHANGED <<dependencies, key_order, show_descriptions, nodes, edges>>

\* lines 196-199: the edges of one package, in the order its set iterates in
AddEdges ==
    /\ gpc = "edges"
    /\ todo # <<>>
    /\ \E order \in Orders(EdgeTargets(dependencies, Head(todo))) :
           edges' = edges \o [i \in DOMAIN order |-> <<Head(todo), order[i]>>]
    /\ todo' = Tail(todo)
    /\ UNCHANGED <<gpc, dependencies, key_order, show_descriptions, nodes>>

\* lines 201-203
Render ==
    /\ gpc = "edges"
    /\ todo = <<>>
    /\ gpc' = "done"
    /\ UNCHANGED <<dependencies, key_order, show_descriptions, todo, nodes,
                   edges>>

\* The mappings the graph builder is run on
GraphKeys == {"magit", "vertico", "org", "straight", "emacs", "foo"}
DependencySets == { {}, {"org", "emacs"}, {"foo", "cl-lib", "vundo"},
                    {"magit", "apheleia", "straight"} }

\* the largest number of keys of a mapping
MaxKeys == 2

GraphInit ==
    /\ dependencies \in
           UNION { [keys -> DependencySets] :
                     keys \in {s \in SUBSET GraphKeys :
                                 Cardinality(s) <= MaxKeys} }
    /\ key_order \in Orders(DOMAIN dependencies)
    /\ show_descriptions \in BOOLEAN
    /\ gpc = "categories"
    /\ todo = CATEGORY_HIERARCHY
    /\ nodes = <<>>
    /\ edges = <<>>
    /\ repo_is_dir = FALSE
    /\ repo = EmptyMap
    /\ only_main_file = FALSE
    /\ pc = "idle"
    /\ listing = <<>>
    /\ idx = 1
    /\ all_dependencies = EmptyMap
    /\ entry_name = <<>>
    /\ package_name_key = <<>>
    /\ current_package_deps = {}
    /\ el_files = <<>>
    /\ fidx = 1
    /\ main_file = NoFile
    /\ warnings = {}
    /\ run = 1
    /\ first_result = EmptyMap
    /\ reordered = FALSE
    /\ opened = {}
    /\ found = EmptyMap

GraphNext ==
    \/ (CreateCategory /\ UNCHANGED scan_vars)
    \/ (CategoriesDone /\ UNCHANGED scan_vars)
    \/ (UngroupedNode /\ UNCHANGED scan_vars)
    \/ (UngroupedDone /\ UNCHANGED scan_vars)
    \/ (AddEdges /\ UNCHANGED scan_vars)
    \/ (Render /\ UNCHANGED scan_vars)

GraphSpec == GraphInit /\ [][GraphNext]_vars

-----------------------------------------------------------------------------
(* Properties of the scanner *)

\* the directories of the repository
PackageDirs == {d \in DOMAIN repo : repo[d].isdir}

\* the name stated for a directory name: without a trailing ".el" when the
\* name ends in ".el" and does not start with ".", else the name itself
Derives(d, k) ==
    IF EndsWith(d, DotEl) /\ Head(d) # "."
    THEN d = k \o DotEl
    ELSE d = k

Prefixes(d) == {SubSeq(d, 1, n) : n \in 0..Len(d)}
DerivedNames == {k \in UNION {Prefixes(d) : d \in PackageDirs} :
                    \E d \in PackageDirs : Derives(d, k)}

\* the names the files of directory d added during this run
FoundIn(d) == UNION {found[p] : p \in {q \in DOMAIN found : q[1] = d}}

\* the files of directory d that open() was called on during this run
OpenedIn(d) == {p[2] : p \in {q \in opened : q[1] = d}}

Returned == pc = "done" /\ repo_is_dir

\* C1: when the scan returns, every key holds the union of the names found
\* in all the directories that derive it, in whatever order they were listed;
\* two directories with the same derived name are merged, not overwritten.
Thm_C1 ==
    Returned =>
        \A k \in DOMAIN all_dependencies :
            all_dependencies[k] =
                UNION {FoundIn(d) : d \in {e \in PackageDirs : Derives(e, k)}}

\* directories "a" and "a.el" were both scanned, each found a name the other
\* did not, and the entry "a" holds both
Wit_C1 ==
    /\ Returned
    /\ {NameA, NameADotEl} \subseteq PackageDirs
    /\ FoundIn(NameA) \ FoundIn(NameADotEl) # {}
    /\ FoundIn(NameADotEl) \ FoundIn(NameA) # {}
    /\ all_dependencies[NameA] = FoundIn(NameA) \cup FoundIn(NameADotEl)

\* C2: in main-file-only mode the files opened in a package directory are:
\* its only .el file if it has exactly one; else "<package_name>.el" if that
\* is among its .el files; else none. A main file is resolved exactly when
\* that set is not empty.
Thm_C2 ==
    (only_main_file /\ pc = "files") =>
        LET els == {f \in DOMAIN repo[entry_name].files : EndsWith(f, DotEl)}
            named == package_name_key \o DotEl
            expected == IF Cardinality(els) = 1 THEN els
                        ELSE IF named \in els THEN {named} ELSE {}
        IN  /\ (main_file # NoFile) <=> (expected # {})
            /\ OpenedIn(entry_name) \subseteq expected
            /\ fidx > Len(el_files) => OpenedIn(entry_name) = expected

\* a directory with two .el files whose loop is over: only "<name>.el" was
\* opened
Wit_C2 ==
    /\ only_main_file
    /\ pc = "files"
    /\ fidx > Len(el_files)
    /\ Len(el_files) = 2
    /\ OpenedIn(entry_name) = {package_name_key \o DotEl}

\* C4: the key of a directory is its name without the trailing ".el" when the
\* name ends in ".el" and does not start with ".", and the name itself
\* otherwise; directory "a.el" gives the key "a" and no key "a.el" (that key
\* comes from a directory "a.el.el" only).
Thm_C4 ==
    /\ pc = "files" => Derives(entry_name, package_name_key)
    /\ (Returned /\ NameADotEl \in PackageDirs) =>
           /\ NameA \in DOMAIN all_dependencies
           /\ NameADotEl \in DOMAIN all_dependencies =>
                  NameADotEl \o DotEl \in PackageDirs
    /\ (Returned /\ NameHidden \in PackageDirs) =>
           NameHidden \in DOMAIN all_dependencies

\* directories "a.el" and ".a.el" were scanned: the keys are "a" and ".a.el"
Wit_C4 ==
    /\ Returned
    /\ PackageDirs = {NameADotEl, NameHidden}
    /\ DOMAIN all_dependencies = {NameA, NameHidden}

Thm_C8 == (pc = "done" /\ run = 2) => all_dependencies = first_result

\* the second run listed the repository in another order and returned a
\* mapping with dependencies
Wit_C8 ==
    /\ pc = "done"
    /\ run = 2
    /\ reordered
    /\ \E k \in DOMAIN all_dependencies : all_dependencies[k] # {}

\* a name made of digits only: a fragment of a version text
IsVersionText(n) == n # <<>> /\ \A i \in DOMAIN n : n[i] \in Digits

\* C3 (as claimed): no fragment of a version text is ever recorded as a
\* dependency name.
Claim_C3 ==
    \A k \in DOMAIN all_dependencies :
        \A n \in all_dependencies[k] : ~IsVersionText(n)

\* C9 (as claimed): a file whose read failed, or that was not found, adds no
\* name to its package's set, names of lines read before the failure
\* included.
Claim_C9 ==
    \A p \in DOMAIN found :
        repo[p[1]].files[p[2]].status # "ok" => found[p] = {}

\* C10 (as claimed): a file whose header spans several physical lines gets no
\* name from it, from its first line or from a continuation line.
Claim_C10 ==
    \A p \in DOMAIN found :
        repo[p[1]].files[p[2]].lines = MultiLineHeader => found[p] = {}

-----------------------------------------------------------------------------
(* Properties of the graph builder *)

NodeNames == {nodes[i].name : i \in DOMAIN nodes}
NodesOf(k) == {i \in DOMAIN nodes : nodes[i].name = k}
EdgeSet == {edges[i] : i \in DOMAIN edges}

\* where the hierarchy of emacs_package_metadata.py lists the keys the
\* mappings use
ListedIn ==
    ("magit" :> <<"development environment">>)
    @@ ("vertico" :> <<"mini-buffer completion", "vertico suite">>)
    @@ ("org" :> <<"knowledge management", "notes">>)
    @@ ("straight" :> <<"straight package installer">>)

\* C6: no edge ever has a target that is no key of the mapping; once the
\* graph is rendered, the edges are exactly the pairs (package, dep) with dep
\* in the package's set and a key of the mapping.
Thm_C6 ==
    /\ \A i \in DOMAIN edges : edges[i][2] \in DOMAIN dependencies
    /\ gpc = "done" =>
           EdgeSet = {<<p, d>> \in (DOMAIN dependencies) \X (DOMAIN dependencies) :
                         d \in dependencies[p]}

\* rendered with an edge, while a dependency that is builtin ("cl-lib"),
\* described ("vundo") or categorized ("apheleia") but no key got none
Wit_C6 ==
    /\ gpc = "done"
    /\ edges # <<>>
    /\ \E p \in DOMAIN dependencies :
           \E d \in dependencies[p] \cap {"cl-lib", "vundo", "apheleia"} :
               <<p, d>> \notin EdgeSet

\* C7: once the node loops are over, every key has exactly one node and
\* nothing else has a node; a key the hierarchy lists has its node in the
\* cluster that lists it, a key it does not list has a top-level node.
Thm_C7 ==
    /\ NodeNames \subseteq DOMAIN dependencies
    /\ gpc \in {"edges", "done"} =>
           \A k \in DOMAIN dependencies :
               /\ Cardinality(NodesOf(k)) = 1
               /\ \A i \in NodesOf(k) :
                      nodes[i].cluster =
                          IF k \in DOMAIN ListedIn THEN ListedIn[k] ELSE <<>>

\* rendered with a key listed two levels deep, a key listed nowhere, and a
\* dependency the hierarchy lists ("apheleia") that is no key
Wit_C7 ==
    /\ gpc = "done"
    /\ \E k \in DOMAIN dependencies : k \in {"vertico", "org"}
    /\ \E k \in DOMAIN dependencies : k \in {"emacs", "foo"}
    /\ \E k \in DOMAIN dependencies : "apheleia" \in dependencies[k]
    /\ Len(nodes) = 2

====
